---- MODULE Spec2Model ----
(***************************************************************************)
(* A model of the Apex Crypto gain/loss CSV parser (src/apex_crypto.py):   *)
(* the header-signature check isFileForBroker, the per-field extractors,   *)
(* and the row loop of parseFileToTxnList.                                 *)
(*                                                                         *)
(* Text is modelled as a sequence of one-character strings, so that the    *)
(* string operations of the code (rstrip, replace, indexing, upper,        *)
(* strptime, Decimal) are computed and not assumed.  Python values are     *)
(* records tagged with a "kind" field; the outcome of a call is either     *)
(* Ok(value) or Raise(exception name).                                     *)
(***************************************************************************)
EXTENDS Integers, Sequences, FiniteSets, TLC

VARIABLES
    file,       \* the rows csv.reader yields for the file: header first
    tax_year,   \* the tax_year argument: PyNone or PyInt(n)
    pc,         \* position of the caller / of the running entry point
    handles,    \* the file objects opened so far, in order of opening
    detected,   \* result of isFileForBroker
    line_num,   \* parseFileToTxnList local
    names,      \* parseFileToTxnList local: the header row, or PyNone
    txn_list,   \* parseFileToTxnList local
    curr_txn,   \* parseFileToTxnList local: the transaction being built
    warnings,   \* what utils.Warning has been given, in order
    result,     \* outcome of parseFileToTxnList
    shortTerm   \* outcome of a call of isShortTerm on a row of the file

vars == <<file, tax_year, pc, handles, detected, line_num, names, txn_list,
          curr_txn, warnings, result, shortTerm>>

(***************************************************************************)
(* Bounds of the model.                                                    *)
(***************************************************************************)
\* Largest number of data rows in a file.
MaxRows == 2

(***************************************************************************)
(* Python values and call outcomes.                                        *)
(***************************************************************************)
PyNone == [kind |-> "None"]

PyInt(n) == [kind |-> "int", val |-> n]

Ok(v) == [ok |-> TRUE, val |-> v]

Raise(e) == [ok |-> FALSE, exc |-> e]

\* No call has been made yet.
NoCall == [ok |-> FALSE, exc |-> "not called"]

\* Python truth value of the values the parser tests.
Truthy(v) ==
    CASE v.kind = "None" -> FALSE
      [] v.kind = "int" -> v.val # 0
      [] v.kind = "Decimal" -> v.coef # 0
      [] OTHER -> TRUE

(***************************************************************************)
(* Text helpers.                                                           *)
(***************************************************************************)
DigitChars == <<"0", "1", "2", "3", "4", "5", "6", "7", "8", "9">>

IsDigit(c) == \E i \in DOMAIN DigitChars : DigitChars[i] = c

DigitVal(c) == (CHOOSE i \in DOMAIN DigitChars : DigitChars[i] = c) - 1

AllDigits(s) == \A i \in DOMAIN s : IsDigit(s[i])

\* Value of a sequence of digit characters (0 for the empty sequence).
RECURSIVE DigitsVal(_)
DigitsVal(s) ==
    IF s = <<>> THEN 0
    ELSE 10 * DigitsVal(SubSeq(s, 1, Len(s) - 1)) + DigitVal(s[Len(s)])

\* str.replace(c, ''): every occurrence of the character c removed.
Remove(s, c) == SelectSeq(s, LAMBDA x : x # c)

IsSpace(c) == c \in {" ", "\t", "\n", "\r"}

\* str.rstrip(): trailing whitespace removed.
RECURSIVE RStrip(_)
RStrip(s) ==
    IF s # <<>> /\ IsSpace(s[Len(s)]) THEN RStrip(SubSeq(s, 1, Len(s) - 1))
    ELSE s

\* Leading whitespace removed.
RECURSIVE LStrip(_)
LStrip(s) ==
    IF s # <<>> /\ IsSpace(s[1]) THEN LStrip(Tail(s))
    ELSE s

LowerChars ==
    <<"a", "b", "c", "d", "e", "f", "g", "h", "i", "j", "k", "l", "m", "n",
      "o", "p", "q", "r", "s", "t", "u", "v", "w", "x", "y", "z">>

UpperChars ==
    <<"A", "B", "C", "D", "E", "F", "G", "H", "I", "J", "K", "L", "M", "N",
      "O", "P", "Q", "R", "S", "T", "U", "V", "W", "X", "Y", "Z">>

\* str.upper() of one character (ASCII).
Upper(c) ==
    IF \E i \in DOMAIN LowerChars : LowerChars[i] = c
    THEN UpperChars[CHOOSE i \in DOMAIN LowerChars : LowerChars[i] = c]
    ELSE c

(***************************************************************************)
(* decimal.Decimal(str), for text over digits, sign, point, underscore and *)
(* whitespace: the exponent, Infinity and NaN forms need letters that make *)
(* any other text a syntax error here.  A Decimal keeps its sign, its      *)
(* integer coefficient and its exponent (Decimal("100.00") is 10000E-2).   *)
(***************************************************************************)
PointCount(s) == Cardinality({i \in DOMAIN s : s[i] = "."})

PointPos(s) == CHOOSE i \in DOMAIN s : s[i] = "."

DecimalOf(sign, int, frac) ==
    [kind |-> "Decimal", sign |-> sign,
     coef |-> DigitsVal(int \o frac), exp |-> 0 - Len(frac)]

\* The unsigned part: digits with at most one point and at least one digit.
DecimalBody(sign, b) ==
    IF PointCount(b) = 0
    THEN IF b # <<>> /\ AllDigits(b)
         THEN Ok(DecimalOf(sign, b, <<>>))
         ELSE Raise("InvalidOperation")
    ELSE IF PointCount(b) = 1
    THEN LET p == PointPos(b)
             int == SubSeq(b, 1, p - 1)
             frac == SubSeq(b, p + 1, Len(b))
         IN  IF AllDigits(int) /\ AllDigits(frac) /\ (int # <<>> \/ frac # <<>>)
             THEN Ok(DecimalOf(sign, int, frac))
             ELSE Raise("InvalidOperation")
    ELSE Raise("InvalidOperation")

Decimal(s) ==
    LET t == Remove(LStrip(RStrip(s)), "_")
    IN  IF t # <<>> /\ t[1] = "-" THEN DecimalBody(1, Tail(t))
        ELSE IF t # <<>> /\ t[1] = "+" THEN DecimalBody(0, Tail(t))
        ELSE DecimalBody(0, t)

(***************************************************************************)
(* datetime: the constructor's range checks, strptime with '%Y-%m-%d',     *)
(* and the difference of two datetimes.                                    *)
(***************************************************************************)
IsLeap(y) == (y % 4 = 0 /\ y % 100 # 0) \/ y % 400 = 0

DaysInMonth(y, m) ==
    IF m = 2 THEN (IF IsLeap(y) THEN 29 ELSE 28)
    ELSE IF m \in {4, 6, 9, 11} THEN 30
    ELSE 31

\* datetime(year, month, day): TypeError for a non-integer year, ValueError
\* for a year, month or day out of range.
datetime(year, m, d) ==
    IF year.kind # "int" THEN Raise("TypeError")
    ELSE IF year.val < 1 \/ year.val > 9999 THEN Raise("ValueError")
    ELSE IF m < 1 \/ m > 12 THEN Raise("ValueError")
    ELSE IF d < 1 \/ d > DaysInMonth(year.val, m) THEN Raise("ValueError")
    ELSE Ok([kind |-> "datetime", year |-> year.val, month |-> m, day |-> d])

\* %m matches 1[0-2]|0[1-9]|[1-9].
MonthText(s) ==
    /\ Len(s) \in {1, 2}
    /\ AllDigits(s)
    /\ DigitsVal(s) \in 1..12

\* %d matches 3[01]|[12]\d|0[1-9]|[1-9]| [1-9].
DayText(s) ==
    \/ Len(s) \in {1, 2} /\ AllDigits(s) /\ DigitsVal(s) \in 1..31
    \/ Len(s) = 2 /\ s[1] = " " /\ IsDigit(s[2]) /\ s[2] # "0"

\* datetime.strptime(s, '%Y-%m-%d'): four year digits, a dash, a month, a
\* dash, a day, nothing else; then the datetime constructor's checks.
strptime(s) ==
    IF Len(s) < 8 \/ Len(s) > 10 THEN Raise("ValueError")
    ELSE IF ~(AllDigits(SubSeq(s, 1, 4)) /\ s[5] = "-") THEN Raise("ValueError")
    ELSE LET rest == SubSeq(s, 6, Len(s))
             dashes == {i \in DOMAIN rest : rest[i] = "-"}
         IN  IF Cardinality(dashes) # 1 THEN Raise("ValueError")
             ELSE LET p == CHOOSE i \in dashes : TRUE
                      mt == SubSeq(rest, 1, p - 1)
                      dt == SubSeq(rest, p + 1, Len(rest))
                  IN  IF MonthText(mt) /\ DayText(dt)
                      THEN datetime(PyInt(DigitsVal(SubSeq(s, 1, 4))),
                                    DigitsVal(mt),
                                    DigitsVal(Remove(dt, " ")))
                      ELSE Raise("ValueError")

\* Days before 1 January of year y, counted from year 1.
DaysBeforeYear(y) ==
    (y - 1) * 365 + ((y - 1) \div 4) - ((y - 1) \div 100) + ((y - 1) \div 400)

RECURSIVE DaysBeforeMonth(_, _)
DaysBeforeMonth(y, m) ==
    IF m = 1 THEN 0
    ELSE DaysBeforeMonth(y, m - 1) + DaysInMonth(y, m - 1)

\* date.toordinal().
ToOrdinal(d) == DaysBeforeYear(d.year) + DaysBeforeMonth(d.year, d.month) + d.day

\* datetime - datetime: a timedelta, which has days, seconds, microseconds.
DateDiff(a, b) ==
    [kind |-> "timedelta", days |-> ToOrdinal(a) - ToOrdinal(b),
     seconds |-> 0, microseconds |-> 0]

\* Attribute access: AttributeError when the object has no such attribute.
GetAttr(obj, attr) ==
    IF attr \in DOMAIN obj THEN Ok(obj[attr]) ELSE Raise("AttributeError")

\* datetime == str is False in Python, whatever the two values are.
DateEqualsStr(d, s) == FALSE

(***************************************************************************)
(* str(Decimal), as '%s' formats it: plain notation when the exponent is   *)
(* not positive and the number is not too small, scientific otherwise.     *)
(***************************************************************************)
RECURSIVE IntChars(_)
IntChars(n) ==
    IF n < 10 THEN <<DigitChars[n + 1]>>
    ELSE Append(IntChars(n \div 10), DigitChars[(n % 10) + 1])

Zeros(n) == [i \in 1..n |-> "0"]

DecimalStr(d) ==
    LET int == IntChars(d.coef)
        leftdigits == d.exp + Len(int)
        dotplace == IF d.exp <= 0 /\ leftdigits > -6 THEN leftdigits ELSE 1
        intpart == IF dotplace <= 0 THEN <<"0">>
                   ELSE IF dotplace >= Len(int)
                        THEN int \o Zeros(dotplace - Len(int))
                        ELSE SubSeq(int, 1, dotplace)
        fracpart == IF dotplace <= 0 THEN <<".">> \o Zeros(0 - dotplace) \o int
                    ELSE IF dotplace >= Len(int) THEN <<>>
                         ELSE <<".">> \o SubSeq(int, dotplace + 1, Len(int))
        e == leftdigits - dotplace
        exp == IF e = 0 THEN <<>>
               ELSE IF e > 0 THEN <<"E", "+">> \o IntChars(e)
                    ELSE <<"E", "-">> \o IntChars(0 - e)
        sign == IF d.sign = 1 THEN <<"-">> ELSE <<>>
    IN  sign \o intpart \o fracpart \o exp

(***************************************************************************)
(* The field extractors of class ApexCrypto.  Their argument is the row's  *)
(* dictionary: a function from column names to the row's field texts.      *)
(***************************************************************************)
\* dict[key]: KeyError when the key is missing.
Lookup(dict, key) ==
    IF key \in DOMAIN dict THEN Ok(dict[key]) ELSE Raise("KeyError")

ZeroDollars == <<"$", "0", ".", "0", "0">>

washSaleDisallowedAmount(dict) ==
    LET f == Lookup(dict, "1099_DISALLOWED_LOSS")
    IN  IF ~f.ok THEN f
        ELSE LET value == RStrip(f.val)
             IN  IF value = ZeroDollars THEN Ok(PyNone)
                 ELSE Decimal(Remove(Remove(value, ","), "$"))

buyDate(dict) ==
    LET f == Lookup(dict, "OPEN_DATE")
    IN  IF ~f.ok THEN f ELSE strptime(f.val)

sellDate(dict) ==
    LET f == Lookup(dict, "CLOSE_DATE")
    IN  IF ~f.ok THEN f ELSE strptime(f.val)

\* sellDate is evaluated before buyDate; the difference is a timedelta, and
\* the code reads its attribute "years".
isShortTerm(dict) ==
    LET s == sellDate(dict)
        b == buyDate(dict)
    IN  IF ~s.ok THEN s
        ELSE IF ~b.ok THEN b
        ELSE LET years == GetAttr(DateDiff(s.val, b.val), "years")
             IN  IF ~years.ok THEN years
                 ELSE Ok([kind |-> "bool", val |-> years.val <= 1])

symbol(dict) == Lookup(dict, "SYMBOL")

numShares(dict) ==
    LET f == Lookup(dict, "QUANTITY")
    IN  IF ~f.ok THEN f ELSE Decimal(f.val)

costBasis(dict) ==
    LET f == Lookup(dict, "1099_COST")
    IN  IF ~f.ok THEN f ELSE Decimal(Remove(Remove(f.val, ","), "$"))

\* A variant of saleProceeds that reads an unparseable amount as zero.
saleProceedsLenient(dict) ==
    LET f == Lookup(dict, "1099_PROCEEDS")
        d == IF f.ok THEN Decimal(Remove(Remove(f.val, ","), "$")) ELSE f
    IN  IF ~f.ok THEN f
        ELSE IF d.ok THEN d
        ELSE Ok(DecimalOf(0, <<"0">>, <<>>))

saleProceeds(dict) ==
    LET f == Lookup(dict, "1099_PROCEEDS")
    IN  IF ~f.ok THEN f ELSE Decimal(Remove(Remove(f.val, ","), "$"))

(***************************************************************************)
(* Row-to-record assembly: the body of the loop of parseFileToTxnList.     *)
(***************************************************************************)
FIRST_LINE ==
    <<"ACCOUNT_ID", "TAX_YEAR", "SUBLOT_ID", "SECNO", "CUSIP", "SYMBOL",
      "SEC_DESCR", "SEC_TYPE", "SEC_SUBTYPE", "SUBACCOUNT_TYPE",
      "OPEN_TRAN_ID", "CLOSE_TRAN_ID-SEQNO", "OPEN_DATE", "CLOSE_DATE",
      "CLOSE_EVENT", "DISPOSAL_METHOD", "QUANTITY", "LONG_SHORT_IND",
      "NO_WS_COST", "NO_WS_PROCEEDS", "NO_WS_GAINLOSS", "WS_COST_ADJ",
      "WS_PROC_ADJ", "WS_LOSS_ID-SEQNO", "1099_ACQ_DATE", "1099_DISP_DATE",
      "1099_COST", "1099_PROCEEDS", "GROSS_NET_IND", "TOTAL_GAINLOSS",
      "ORDINARY_GAINLOSS", "1099_DISALLOWED_LOSS", "1099_MARKET_DISCOUNT",
      "8949_GAINLOSS", "8949_CODE", "HOLDING_DATE", "TERM", "COVERED_IND",
      "8949_BOX", "1099_1256_CY_REALIZED", "1099_1256_PY_UNREALIZED",
      "1099_1256_CY_UNREALIZED", "1099_1256_AGGREGATE">>

\* txn_dict: names[i] is given row[i] for i = 0 .. len(names) - 1, a later
\* column of the same name overwriting an earlier one; row[i] raises
\* IndexError when the row is shorter than the header.  Columns of the row
\* beyond the header's are never read.
BuildDict(nm, row) ==
    IF Len(row) < Len(nm) THEN Raise("IndexError")
    ELSE Ok([k \in {nm[i] : i \in DOMAIN nm} |->
                row[CHOOSE i \in DOMAIN nm :
                        /\ nm[i] = k
                        /\ \A j \in DOMAIN nm : nm[j] = k => j <= i]])

\* utils.Transaction(): a record with no field set yet.
NewTransaction ==
    [adjustment |-> PyNone, desc |-> PyNone, costBasis |-> PyNone,
     buyDate |-> PyNone, buyDateStr |-> PyNone, saleProceeds |-> PyNone,
     sellDate |-> PyNone, sellDateStr |-> PyNone, entryCode |-> PyNone]

\* utils.txfDate(date): the date in the shared display format.
txfDate(d) == [kind |-> "txfDate", date |-> d]

VariousStr == [kind |-> "str", text |-> "Various"]

code_map ==
    ("A" :> 321) @@ ("B" :> 711) @@ ("C" :> 712) @@
    ("D" :> 323) @@ ("E" :> 713) @@ ("F" :> 714)

\* A variant of entryCode that looks the letter up without upper().
entryCodeCaseSensitive(dict) ==
    LET f == Lookup(dict, "8949_BOX")
    IN  IF ~f.ok THEN f
        ELSE IF f.val = <<>> THEN Raise("IndexError")
        ELSE IF f.val[1] \in DOMAIN code_map
             THEN Ok(PyInt(code_map[f.val[1]]))
             ELSE Raise("KeyError")

\* code_map[txn_dict['8949_BOX'][0].upper()]
entryCode(dict) ==
    LET f == Lookup(dict, "8949_BOX")
    IN  IF ~f.ok THEN f
        ELSE IF f.val = <<>> THEN Raise("IndexError")
        ELSE LET c == Upper(f.val[1])
             IN  IF c \in DOMAIN code_map THEN Ok(PyInt(code_map[c]))
                 ELSE Raise("KeyError")

\* The exception e leaves the loop body with curr_txn as built so far.
Fail(e, txn) == [ok |-> FALSE, exc |-> e.exc, txn |-> txn]

\* The adjustment is stored under the condition "not adjustment".
WithAdjustment(txn, adjustment) ==
    IF ~Truthy(adjustment) THEN [txn EXCEPT !.adjustment = adjustment]
    ELSE txn

\* '%s %s' % (numShares, symbol)
Description(shares, sym) == DecimalStr(shares) \o <<" ">> \o sym

WithBuyDate(txn, d, buy_date) ==
    IF DateEqualsStr(d, "Various")
    THEN [txn EXCEPT !.buyDate = buy_date, !.buyDateStr = VariousStr]
    ELSE [txn EXCEPT !.buyDate = d, !.buyDateStr = txfDate(d)]

WithSellDate(txn, d, sell_date) ==
    IF DateEqualsStr(d, "Various")
    THEN [txn EXCEPT !.sellDate = sell_date, !.sellDateStr = VariousStr]
    ELSE [txn EXCEPT !.sellDate = d, !.sellDateStr = txfDate(d)]

\* The statements of the loop body from the new Transaction to the entry
\* code, in order; the first exception ends it.
Assemble(dict, buy_date, sell_date) ==
    LET t0 == NewTransaction
        adjustment == washSaleDisallowedAmount(dict)
    IN  IF ~adjustment.ok THEN Fail(adjustment, t0) ELSE
    LET t1 == WithAdjustment(t0, adjustment.val)
        shares == numShares(dict)
    IN  IF ~shares.ok THEN Fail(shares, t1) ELSE
    LET sym == symbol(dict)
    IN  IF ~sym.ok THEN Fail(sym, t1) ELSE
    LET t2 == [t1 EXCEPT !.desc = Description(shares.val, sym.val)]
        cost == costBasis(dict)
    IN  IF ~cost.ok THEN Fail(cost, t2) ELSE
    LET t3 == [t2 EXCEPT !.costBasis = cost.val]
        bd == buyDate(dict)
    IN  IF ~bd.ok THEN Fail(bd, t3) ELSE
    LET t4 == WithBuyDate(t3, bd.val, buy_date)
        proceeds == saleProceeds(dict)
    IN  IF ~proceeds.ok THEN Fail(proceeds, t4) ELSE
    LET t5 == [t4 EXCEPT !.saleProceeds = proceeds.val]
        sd == sellDate(dict)
    IN  IF ~sd.ok THEN Fail(sd, t5) ELSE
    LET t6 == WithSellDate(t5, sd.val, sell_date)
        code == entryCode(dict)
    IN  IF ~code.ok THEN Fail(code, t6) ELSE
    [ok |-> TRUE, txn |-> [t6 EXCEPT !.entryCode = code.val]]

\* A variant of OutOfYear that tests the purchase year.
OutOfYearByBuyDate(txn, ty) == Truthy(ty) /\ txn.buyDate.year # ty.val

\* The tax-year test that discards a transaction.
OutOfYear(txn, ty) == Truthy(ty) /\ txn.sellDate.year # ty.val

\* A variant of WarningOf that counts lines from zero.
WarningOfZeroBased(txn, line, ty) ==
    [desc |-> txn.desc, line |-> line - 1, year |-> ty.val]

\* What utils.Warning is given for a discarded transaction.
WarningOf(txn, line, ty) == [desc |-> txn.desc, line |-> line, year |-> ty.val]

(***************************************************************************)
(* Inputs: files as csv.reader yields them, a header row of column names   *)
(* followed by data rows of field texts, and the tax_year argument.        *)
(***************************************************************************)
BaseField(name) ==
    CASE name = "SYMBOL" -> <<"B", "T", "C">>
      [] name = "QUANTITY" -> <<"2", ".", "5">>
      [] name = "OPEN_DATE" -> <<"2", "0", "2", "3", "-", "0", "1", "-", "1", "0">>
      [] name = "CLOSE_DATE" -> <<"2", "0", "2", "3", "-", "0", "6", "-", "0", "1">>
      [] name = "1099_COST" -> <<"$", "1", ",", "2", "3", "4", ".", "5", "6">>
      [] name = "1099_PROCEEDS" -> <<"$", "1", "5", "0", ".", "0", "0">>
      [] name = "1099_DISALLOWED_LOSS" -> <<"$", "0", ".", "0", "0">>
      [] name = "8949_BOX" -> <<"C">>
      [] OTHER -> <<>>

BaseRow == [i \in DOMAIN FIRST_LINE |-> BaseField(FIRST_LINE[i])]

\* The row with the field of column `name` replaced by `text`.
With(row, name, text) ==
    [i \in DOMAIN row |-> IF FIRST_LINE[i] = name THEN text ELSE row[i]]

Various == <<"V", "a", "r", "i", "o", "u", "s">>

PriorYearRow ==
    With(With(With(With(BaseRow,
        "SYMBOL", <<"E", "T", "H">>),
        "OPEN_DATE", <<"2", "0", "2", "1", "-", "0", "5", "-", "0", "1">>),
        "CLOSE_DATE", <<"2", "0", "2", "2", "-", "0", "6", "-", "0", "1">>),
        "8949_BOX", <<"d">>)

RowSet ==
    { BaseRow,
      PriorYearRow,
      With(With(BaseRow, "1099_DISALLOWED_LOSS", <<"$", "5", ".", "0", "0">>),
           "8949_BOX", <<"A", "x">>),
      With(PriorYearRow, "1099_DISALLOWED_LOSS", <<"0", ".", "0", "0", " ">>),
      With(BaseRow, "OPEN_DATE", Various),
      With(BaseRow, "CLOSE_DATE", Various),
      With(BaseRow, "CLOSE_DATE", <<"2", "0", "2", "3", "-", "0", "2", "-", "3", "0">>),
      With(BaseRow, "1099_COST", <<"a", "b", "c">>),
      With(PriorYearRow, "1099_PROCEEDS", <<"a", "b", "c">>),
      With(BaseRow, "QUANTITY", <<"1", ".", "x">>),
      With(BaseRow, "8949_BOX", <<"G">>),
      With(BaseRow, "8949_BOX", <<>>),
      SubSeq(BaseRow, 1, Len(BaseRow) - 5),
      <<>>,
      Append(BaseRow, <<"x">>) }

\* The header of another broker's export, and a row under it.
OtherHeader == <<"Symbol", "Quantity">>

OtherRow == <<<<"B", "T", "C">>, <<"2", ".", "5">>>>

RowSeqs == UNION {[1..k -> RowSet] : k \in 0..MaxRows}

Files ==
    {<<>>, <<OtherHeader>>, <<OtherHeader, OtherRow>>}
    \cup {<<FIRST_LINE>> \o rows : rows \in RowSeqs}

TaxYears == {PyNone, PyInt(2022), PyInt(2023)}

(***************************************************************************)
(* The state machine: one call of isFileForBroker, of parseFileToTxnList,   *)
(* or of isShortTerm on one row of the file; the calls share no state.     *)
(***************************************************************************)
Init ==
    /\ file \in Files
    /\ tax_year \in TaxYears
    /\ pc = "idle"
    /\ handles = <<>>
    /\ detected = NoCall
    /\ line_num = 0
    /\ names = PyNone
    /\ txn_list = <<>>
    /\ curr_txn = PyNone
    /\ warnings = <<>>
    /\ result = NoCall
    /\ shortTerm = [row |-> 0, out |-> NoCall]

parseLocals == <<line_num, names, txn_list, curr_txn>>

\* open(filename): a new open file object.
Open(by) == Append(handles, [by |-> by, open |-> TRUE])

\* The last file object opened, closed.
CloseLast == [handles EXCEPT ![Len(handles)].open = FALSE]

\* f.readline() on a fresh file object: the first line, or '' at end of file.
\* A line is given by its fields; the fields here hold no comma or quote,
\* so two lines are equal exactly when their fields are.
ReadLine == IF file = <<>> THEN <<>> ELSE file[1]

\* isFileForBroker, entering the with block: the file is opened.
isFileForBroker_Open ==
    /\ pc = "idle"
    /\ handles' = Open("isFileForBroker")
    /\ pc' = "isFileForBroker"
    /\ UNCHANGED <<file, tax_year, detected, parseLocals, warnings, result,
                   shortTerm>>

\* isFileForBroker: the first line is read and compared; leaving the with
\* block closes the file; the comparison's result is returned.
isFileForBroker_Return ==
    /\ pc = "isFileForBroker"
    /\ detected' = Ok([kind |-> "bool", val |-> ReadLine = FIRST_LINE])
    /\ handles' = CloseLast
    /\ pc' = "done"
    /\ UNCHANGED <<file, tax_year, parseLocals, warnings, result, shortTerm>>

YEAR_BEGIN == datetime(tax_year, 1, 1)

YEAR_END == datetime(tax_year, 12, 31)

\* parseFileToTxnList up to the loop: the two datetimes are built from
\* tax_year (raising when that is not a year), then the file is opened and
\* the locals are initialised.
parseFileToTxnList_Begin ==
    /\ pc = "idle"
    /\ IF ~YEAR_BEGIN.ok
       THEN /\ result' = Raise(YEAR_BEGIN.exc)
            /\ pc' = "done"
            /\ UNCHANGED <<handles, parseLocals>>
       ELSE /\ handles' = Open("parseFileToTxnList")
            /\ line_num' = 0
            /\ txn_list' = <<>>
            /\ names' = PyNone
            /\ curr_txn' = PyNone
            /\ pc' = "loop"
            /\ UNCHANGED result
    /\ UNCHANGED <<file, tax_year, detected, warnings, shortTerm>>

\* The loop's first iteration: the header row becomes names.
parseFileToTxnList_Header ==
    /\ pc = "loop"
    /\ line_num < Len(file)
    /\ line_num + 1 = 1
    /\ line_num' = line_num + 1
    /\ names' = file[line_num + 1]
    /\ UNCHANGED <<file, tax_year, pc, handles, detected, txn_list, curr_txn,
                   warnings, result, shortTerm>>

\* Any later iteration: one data row.  An exception leaves the function,
\* the file object still open; an out-of-year transaction is warned about
\* and dropped; any other is appended.
parseFileToTxnList_Row ==
    /\ pc = "loop"
    /\ line_num < Len(file)
    /\ line_num + 1 # 1
    /\ line_num' = line_num + 1
    /\ LET row == file[line_num + 1]
           dict == BuildDict(names, row)
       IN  IF ~dict.ok
           THEN /\ result' = Raise(dict.exc)
                /\ pc' = "done"
                /\ UNCHANGED <<txn_list, curr_txn, warnings>>
           ELSE LET t == Assemble(dict.val, YEAR_BEGIN.val, YEAR_END.val)
                IN  /\ curr_txn' = t.txn
                    /\ IF ~t.ok
                       THEN /\ result' = Raise(t.exc)
                            /\ pc' = "done"
                            /\ UNCHANGED <<txn_list, warnings>>
                       ELSE IF OutOfYear(t.txn, tax_year)
                       THEN /\ warnings' =
                                Append(warnings,
                                       WarningOf(t.txn, line_num + 1, tax_year))
                            /\ UNCHANGED <<txn_list, result, pc>>
                       ELSE /\ txn_list' = Append(txn_list, t.txn)
                            /\ UNCHANGED <<warnings, result, pc>>
    /\ UNCHANGED <<file, tax_year, handles, detected, names, shortTerm>>

\* The reader is exhausted: txn_list is returned.  The function never
\* closes the file; whether the file object is finalized as the call
\* returns depends on the interpreter's memory management.
parseFileToTxnList_Return ==
    /\ pc = "loop"
    /\ line_num = Len(file)
    /\ result' = Ok(txn_list)
    /\ pc' = "done"
    /\ \E finalized \in BOOLEAN :
           handles' = IF finalized THEN CloseLast ELSE handles
    /\ UNCHANGED <<file, tax_year, detected, parseLocals, warnings, shortTerm>>

\* Some time after the call the interpreter finalizes the unreferenced
\* file object, which closes it.
Finalize ==
    /\ pc = "done"
    /\ handles # <<>>
    /\ handles[Len(handles)].open
    /\ handles' = CloseLast
    /\ UNCHANGED <<file, tax_year, pc, detected, parseLocals, warnings, result,
                   shortTerm>>

\* The caller applies isShortTerm to the dictionary of one data row.
CallIsShortTerm ==
    /\ pc = "idle"
    /\ \E i \in 2..Len(file) :
           LET dict == BuildDict(file[1], file[i])
           IN  /\ dict.ok
               /\ shortTerm' = [row |-> i, out |-> isShortTerm(dict.val)]
    /\ pc' = "done"
    /\ UNCHANGED <<file, tax_year, handles, detected, parseLocals, warnings,
                   result>>

Next ==
    \/ isFileForBroker_Open
    \/ isFileForBroker_Return
    \/ parseFileToTxnList_Begin
    \/ parseFileToTxnList_Header
    \/ parseFileToTxnList_Row
    \/ parseFileToTxnList_Return
    \/ Finalize
    \/ CallIsShortTerm

Spec == Init /\ [][Next]_vars

(***************************************************************************)
(* Vocabulary of the properties, stated on the file's text and not through *)
(* the parser's own operators.                                             *)
(***************************************************************************)
\* Index of a column of the export's header.
Col(name) == CHOOSE i \in DOMAIN FIRST_LINE : FIRST_LINE[i] = name

\* Field of a row that has the column.
FieldOf(row, name) == row[Col(name)]

HasExportHeader == file # <<>> /\ file[1] = FIRST_LINE

\* Text of an unsigned number: digits with at most one point.
NumberText(s) ==
    /\ \A i \in DOMAIN s : IsDigit(s[i]) \/ s[i] = "."
    /\ Cardinality({i \in DOMAIN s : s[i] = "."}) <= 1
    /\ \E i \in DOMAIN s : IsDigit(s[i])

\* Text of an amount: a number that may carry "$" and thousands commas.
MoneyText(s) ==
    NumberText(SelectSeq(RStrip(s), LAMBDA c : c \notin {"$", ","}))

\* Text YYYY-MM-DD of a day of the calendar.
IsoDateText(s) ==
    /\ Len(s) = 10
    /\ s[5] = "-" /\ s[8] = "-"
    /\ \A i \in {1, 2, 3, 4, 6, 7, 9, 10} : IsDigit(s[i])
    /\ LET y == DigitsVal(SubSeq(s, 1, 4))
           m == DigitsVal(SubSeq(s, 6, 7))
           d == DigitsVal(SubSeq(s, 9, 10))
       IN  /\ y >= 1
           /\ m \in 1..12
           /\ d >= 1
           /\ d <= (IF m = 2
                    THEN (IF (y % 4 = 0 /\ y % 100 # 0) \/ y % 400 = 0
                          THEN 29 ELSE 28)
                    ELSE IF m \in {4, 6, 9, 11} THEN 30 ELSE 31)

YearOfText(s) == DigitsVal(SubSeq(s, 1, 4))

MonthOfText(s) == DigitsVal(SubSeq(s, 6, 7))

DayOfText(s) == DigitsVal(SubSeq(s, 9, 10))

BoxLetters == {"A", "B", "C", "D", "E", "F", "a", "b", "c", "d", "e", "f"}

BoxText(s) == s # <<>> /\ s[1] \in BoxLetters

\* The entry code the table gives a box letter, in either case.
BoxCode(c) ==
    CASE c \in {"A", "a"} -> 321
      [] c \in {"B", "b"} -> 711
      [] c \in {"C", "c"} -> 712
      [] c \in {"D", "d"} -> 323
      [] c \in {"E", "e"} -> 713
      [] c \in {"F", "f"} -> 714

\* A row with all the header's columns has a field the list of malformed
\* rows names: a date, an amount, the quantity or the box letter.
MalformedRow(row) ==
    /\ Len(row) >= Len(FIRST_LINE)
    /\ \/ ~IsoDateText(FieldOf(row, "OPEN_DATE"))
       \/ ~IsoDateText(FieldOf(row, "CLOSE_DATE"))
       \/ ~MoneyText(FieldOf(row, "1099_COST"))
       \/ ~MoneyText(FieldOf(row, "1099_PROCEEDS"))
       \/ ~NumberText(FieldOf(row, "QUANTITY"))
       \/ ~BoxText(FieldOf(row, "8949_BOX"))

\* A row of the export with as many columns as the header and every field
\* the parser reads well formed.
ValidRow(row) ==
    /\ Len(row) = Len(FIRST_LINE)
    /\ ~MalformedRow(row)
    /\ MoneyText(FieldOf(row, "1099_DISALLOWED_LOSS"))

AllRowsValid == HasExportHeader /\ \A i \in 2..Len(file) : ValidRow(file[i])

CloseYear(row) == YearOfText(FieldOf(row, "CLOSE_DATE"))

\* parseFileToTxnList has been called and has returned or raised.
ParseEnded == pc = "done" /\ (result.ok \/ result.exc # "not called")

ParseReturned == pc = "done" /\ result.ok

ParseRaised == pc = "done" /\ ~result.ok /\ result.exc # "not called"

\* The loop has taken the data row on line i of the file.
Reached(i) == i >= 2 /\ pc \in {"loop", "done"} /\ line_num >= i

\* The loop body ran to its end for the data row on line i.
Passed(i) == Reached(i) /\ ~(ParseRaised /\ line_num = i)

\* Number of lines the loop has dealt with completely.
LinesPassed == IF ParseRaised /\ line_num >= 1 THEN line_num - 1 ELSE line_num

\* The record the parser builds from a row of the export.
RecordOf(row) ==
    Assemble(BuildDict(FIRST_LINE, row).val, YEAR_BEGIN.val, YEAR_END.val).txn

\* The lines among 2..k whose sale year is (same = TRUE) or is not
\* (same = FALSE) the requested tax year, in file order.
LinesByYear(k, same) ==
    SelectSeq([j \in 1..(IF k >= 1 THEN k - 1 ELSE 0) |-> j + 1],
              LAMBDA i : (CloseYear(file[i]) = tax_year.val) = same)

(***************************************************************************)
(* The properties.                                                         *)
(***************************************************************************)

\* C1: every retained row's record carries the parsed disallowed-loss
\* amount as its adjustment when the field is not "$0.00", and no
\* adjustment when it is.
C1_AdjustmentIsDisallowedLoss ==
    HasExportHeader =>
        \A i \in 2..Len(file) :
            (line_num = i /\ Passed(i) /\ ~OutOfYear(curr_txn, tax_year)) =>
                LET loss == FieldOf(file[i], "1099_DISALLOWED_LOSS")
                IN  IF loss = ZeroDollars
                    THEN curr_txn.adjustment = PyNone
                    ELSE curr_txn.adjustment =
                             Decimal(SelectSeq(loss,
                                 LAMBDA c : c \notin {"$", ","})).val

\* C2: for a file of valid rows and a requested tax year, the call returns
\* exactly the records of the data rows whose sale year is the tax year,
\* one per row, in file order.
C2_ReturnedListIsInYearRows ==
    (ParseEnded /\ tax_year.kind = "int" /\ AllRowsValid) =>
        /\ result.ok
        /\ LET kept == LinesByYear(Len(file), TRUE)
           IN  result.val = [j \in 1..Len(kept) |-> RecordOf(file[kept[j]])]

\* A returned list that kept the second data row and dropped the first.
C2_Witness ==
    /\ ParseReturned
    /\ tax_year.kind = "int"
    /\ AllRowsValid
    /\ Len(file) = 3
    /\ CloseYear(file[2]) # tax_year.val
    /\ CloseYear(file[3]) = tax_year.val
    /\ result.val = <<RecordOf(file[3])>>

\* C3: the warnings are exactly one per row dealt with whose sale year is
\* not the tax year, in file order, each with that row's description and
\* line number; every other row dealt with has a record and no warning.
C3_OneWarningPerDiscardedRow ==
    (HasExportHeader /\ tax_year.kind = "int") =>
        LET out == LinesByYear(LinesPassed, FALSE)
        IN  /\ warnings =
                   [j \in 1..Len(out) |->
                       [desc |-> RecordOf(file[out[j]]).desc,
                        line |-> out[j],
                        year |-> tax_year.val]]
            /\ Len(txn_list) = Len(LinesByYear(LinesPassed, TRUE))

\* A kept row on line 2 and a discarded row on line 3, warned about once.
C3_Witness ==
    /\ ParseReturned
    /\ AllRowsValid
    /\ Len(file) = 3
    /\ Len(txn_list) = 1
    /\ Len(warnings) = 1
    /\ warnings[1].line = 3
    /\ warnings[1].desc = <<"2", ".", "5", " ", "E", "T", "H">>

\* A row that is valid once its "Various" dates are replaced by dates.
ValidButForVarious(row) ==
    /\ Len(row) = Len(FIRST_LINE)
    /\ Various \in {FieldOf(row, "OPEN_DATE"), FieldOf(row, "CLOSE_DATE")}
    /\ ValidRow(With(With(row, "OPEN_DATE", FieldOf(BaseRow, "OPEN_DATE")),
                     "CLOSE_DATE", FieldOf(BaseRow, "CLOSE_DATE")))
    /\ FieldOf(row, "OPEN_DATE") = Various
           \/ IsoDateText(FieldOf(row, "OPEN_DATE"))
    /\ FieldOf(row, "CLOSE_DATE") = Various
           \/ IsoDateText(FieldOf(row, "CLOSE_DATE"))

\* C4: a row whose OPEN_DATE or CLOSE_DATE is "Various" is parsed, with
\* the first or last day of the tax year as its date and "Various" as the
\* date's display string.
C4_VariousDatesTakeYearBounds ==
    (HasExportHeader /\ tax_year.kind = "int") =>
        \A i \in 2..Len(file) :
            (Reached(i) /\ line_num = i /\ ValidButForVarious(file[i])) =>
                /\ Passed(i)
                /\ FieldOf(file[i], "OPEN_DATE") = Various =>
                       /\ curr_txn.buyDate = YEAR_BEGIN.val
                       /\ curr_txn.buyDateStr = VariousStr
                /\ FieldOf(file[i], "CLOSE_DATE") = Various =>
                       /\ curr_txn.sellDate = YEAR_END.val
                       /\ curr_txn.sellDateStr = VariousStr

\* C5: without a tax year the call succeeds, keeps every valid row and
\* warns about none.
C5_NoTaxYearKeepsEveryRow ==
    (ParseEnded /\ tax_year.kind = "None" /\ AllRowsValid) =>
        /\ result.ok
        /\ Len(result.val) = Len(file) - 1
        /\ warnings = <<>>

C7_ColumnCountMismatchFails ==
    file # <<>> =>
        \A i \in 2..Len(file) :
            (Reached(i) /\ Len(file[i]) # Len(file[1])) =>
                (ParseRaised /\ line_num = i)

\* C8: a row the loop body completes has a box field that starts with one
\* of A-F in either case, and its record's entry code is the table's code
\* for that letter; a row the parse raises on is not a valid row, and if
\* its box field is empty or starts otherwise its record is given no entry
\* code.
C8_EntryCodeFromBoxLetter ==
    HasExportHeader =>
        \A i \in 2..Len(file) :
            (Reached(i) /\ line_num = i /\ Len(file[i]) >= Len(FIRST_LINE)) =>
                LET box == FieldOf(file[i], "8949_BOX")
                IN  IF Passed(i)
                    THEN /\ BoxText(box)
                         /\ curr_txn.entryCode = PyInt(BoxCode(box[1]))
                    ELSE /\ ~ValidRow(file[i])
                         /\ ~BoxText(box) => curr_txn.entryCode = PyNone

\* A row with box "d" has been given entry code 323.
C8_Witness ==
    /\ HasExportHeader
    /\ line_num >= 2
    /\ pc = "loop"
    /\ Len(file[line_num]) >= Len(FIRST_LINE)
    /\ FieldOf(file[line_num], "8949_BOX") = <<"d">>
    /\ curr_txn.entryCode = PyInt(323)

\* C9: when no call is running, no file object is open.
C9_NoHandleOpenAfterCall ==
    pc \in {"idle", "done"} => \A h \in DOMAIN handles : ~handles[h].open

\* The sale is no later than the purchase date of the following year.
SoldWithinOneYear(open, close) ==
    LET y == YearOfText(open) + 1
        m == MonthOfText(open)
        d == DayOfText(open)
    IN  \/ YearOfText(close) < y
        \/ YearOfText(close) = y /\ MonthOfText(close) < m
        \/ YearOfText(close) = y /\ MonthOfText(close) = m
               /\ DayOfText(close) <= d

\* C10: for a row with valid dates isShortTerm returns a boolean, true
\* exactly when the sale is at most one year after the purchase.
C10_ShortTermWithinOneYear ==
    (HasExportHeader /\ shortTerm.row >= 2) =>
        LET row == file[shortTerm.row]
        IN  (IsoDateText(FieldOf(row, "OPEN_DATE"))
                 /\ IsoDateText(FieldOf(row, "CLOSE_DATE"))) =>
                /\ shortTerm.out.ok
                /\ shortTerm.out.val =
                       [kind |-> "bool",
                        val |-> SoldWithinOneYear(FieldOf(row, "OPEN_DATE"),
                                                  FieldOf(row, "CLOSE_DATE"))]

====
